---- MODULE Spec2Model ----
(***************************************************************************)
(* DeepSeekClient (mcp_server/src/services/custom_llm_clients.py): the     *)
(* request built by _call_api, its extraction of a structured result from  *)
(* a completion, and the retry-with-context loop of _generate_response.    *)
(*                                                                         *)
(* Text is a sequence of tokens.  A model identifier and a mapping key are *)
(* sequences of characters, so that the substring test 'reasoner' in model *)
(* and the prefix test k.startswith('__') are computed.  A completion's    *)
(* content and a tool call's arguments are sequences of lexical tokens of  *)
(* JSON text ("{", "}", ",", a whole  "key": value  member, a number),     *)
(* whitespace, prose and a control character.  None and the empty string   *)
(* are both the empty sequence wherever the code only tests truthiness.    *)
(***************************************************************************)
EXTENDS Integers, Sequences, FiniteSets, TLC

VARIABLES
    model,            \* self.model (<<>>: None or '')
    thinking_enabled, \* self.thinking_enabled
    temperature,      \* self.temperature (<<>>: None, <<t>>: t)
    pc,               \* position of the caller in _generate_response / _call_api
    messages,         \* the caller's message list (mutated in place)
    orig,             \* the message list as it was passed in
    response_model,   \* the response schema's class name, or NoSchema
    max_tokens,       \* the requested max-token budget
    retry_count,      \* local of _generate_response
    last_error,       \* local of _generate_response (<<>>: None)
    request,          \* request_kwargs of the latest provider call (<<>>: none yet)
    calls,            \* number of provider calls made so far
    completion,       \* what the provider answered to the latest call (<<>>: none yet)
    api,              \* outcome of the latest _call_api (<<>>: none yet)
    outcome,          \* what reached the caller
    tasks,            \* concurrent _generate_response calls on the one client: their locals
    ranks             \* HttpRerankerClient.rank calls: their locals and their HTTP client

vars == <<model, thinking_enabled, temperature, pc, messages, orig, response_model,
          max_tokens, retry_count, last_error, request, calls, completion, api, outcome,
          tasks, ranks>>

----------------------------------------------------------------------------
(* Bounds of the model *)

\* longest content / tool-call argument text the exhaustive extraction check draws
MaxContentLen == 4
\* a requested budget above both ceilings
OverBudget == 50000
\* longest list of entries a rerank response carries
MaxEntries == 3
\* concurrent _generate_response calls on one client
NumCallers == 2
\* concurrent rank calls
NumRankCalls == 2

(* Program constants *)

MAX_RETRIES == 2
STANDARD_MAX == 8192
REASONER_MAX == 32768
CONTENT_PREFIX == 200

DEFAULT_MODEL == <<"d","e","e","p","s","e","e","k","-","c","h","a","t">>
REASONER_MODEL == <<"d","e","e","p","s","e","e","k","-","r","e","a","s","o","n","e","r">>
CUSTOM_MODEL == <<"r","e","a","s","o","n">>
Reasoner == <<"r","e","a","s","o","n","e","r">>

NoSchema == "None"

----------------------------------------------------------------------------
(* Python string and dict helpers *)

\* sub in s
Contains(sub, s) ==
    \E i \in 0..(Len(s) - Len(sub)) : SubSeq(s, i + 1, i + Len(sub)) = sub

\* s.startswith(p)
StartsWith(s, p) == Len(s) >= Len(p) /\ SubSeq(s, 1, Len(p)) = p

\* s[:n]
Prefix(s, n) == SubSeq(s, 1, IF Len(s) < n THEN Len(s) ELSE n)

\* s.find(t): 0-based index of the first t, -1 when absent
Find(s, t) ==
    IF \E i \in 1..Len(s) : s[i] = t
    THEN (CHOOSE i \in 1..Len(s) : s[i] = t /\ \A j \in 1..(i - 1) : s[j] # t) - 1
    ELSE -1

\* s.rfind(t): 0-based index of the last t, -1 when absent
RFind(s, t) ==
    IF \E i \in 1..Len(s) : s[i] = t
    THEN (CHOOSE i \in 1..Len(s) : s[i] = t /\ \A j \in (i + 1)..Len(s) : s[j] # t) - 1
    ELSE -1

\* d[k] = v on a dict
DictSet(d, k, v) == [x \in DOMAIN d \cup {k} |-> IF x = k THEN v ELSE d[x]]

\* d.pop(k, None) on a dict
DictPop(d, k) == [x \in DOMAIN d \ {k} |-> d[x]]

EmptyDict == [x \in {} |-> 0]

----------------------------------------------------------------------------
(* Tokens of completion text *)

LB == "{"
RB == "}"
COMMA == ","
WS == " "
PROSE == "Sure!"
NUM == "1"
ZW == "U+200B"
M_NAME == "name:1"
M_TOK == "__input_tokens:7"
M_PRIV == "__x:1"
M_NOKEY == ":1"

K_NAME == <<"n","a","m","e">>
K_IN == <<"_","_","i","n","p","u","t","_","t","o","k","e","n","s">>
K_OUT == <<"_","_","o","u","t","p","u","t","_","t","o","k","e","n","s">>
K_PRIV == <<"_","_","x">>
DUNDER == <<"_","_">>

Members == {M_NAME, M_TOK, M_PRIV, M_NOKEY}

MemberKey(m) ==
    CASE m = M_NAME -> K_NAME
      [] m = M_TOK -> K_IN
      [] m = M_PRIV -> K_PRIV
      [] OTHER -> <<>>

MemberVal(m) == IF m = M_TOK THEN 7 ELSE 1

----------------------------------------------------------------------------
(* json.loads *)

NotWS(t) == t # WS

IsMemberList(inner) ==
    \/ Len(inner) = 0
    \/ /\ Len(inner) % 2 = 1
       /\ \A i \in 1..Len(inner) :
            IF i % 2 = 1 THEN inner[i] \in Members ELSE inner[i] = COMMA

\* the dict of a member list: a repeated key keeps its last value
ObjectOf(inner) ==
    LET at == {i \in 1..Len(inner) : i % 2 = 1}
        last(k) == CHOOSE i \in at :
                     /\ MemberKey(inner[i]) = k
                     /\ \A j \in at : MemberKey(inner[j]) = k => j <= i
    IN [k \in {MemberKey(inner[i]) : i \in at} |-> MemberVal(inner[last(k)])]

\* json.loads(text): [ok, kind, value]; not ok is json.JSONDecodeError
JsonLoads(text) ==
    LET t == SelectSeq(text, NotWS)
        n == Len(t)
    IN IF t = <<NUM>>
       THEN [ok |-> TRUE, kind |-> "number", value |-> EmptyDict]
       ELSE IF n >= 2 /\ t[1] = LB /\ t[n] = RB /\ IsMemberList(SubSeq(t, 2, n - 1))
       THEN [ok |-> TRUE, kind |-> "object", value |-> ObjectOf(SubSeq(t, 2, n - 1))]
       ELSE [ok |-> FALSE, kind |-> "none", value |-> EmptyDict]

\* the blank test without the strip: if not content
Strip_Mut(s) == s

\* content.strip()
Strip(s) ==
    IF \A i \in 1..Len(s) : s[i] = WS
    THEN <<>>
    ELSE LET a == CHOOSE i \in 1..Len(s) : s[i] # WS /\ \A j \in 1..(i - 1) : s[j] = WS
             b == CHOOSE i \in 1..Len(s) : s[i] # WS /\ \A j \in (i + 1)..Len(s) : s[j] = WS
         IN SubSeq(s, a, b)

----------------------------------------------------------------------------
(* Errors and outcomes of _call_api *)

Error(cls, msg) == [cls |-> cls, msg |-> msg]
NoError == Error("None", <<>>)

Ok(result) == [state |-> "ok", result |-> result, err |-> NoError]
Fail(err) == [state |-> "error", result |-> EmptyDict, err |-> err]
NoOutcome == [state |-> "none", result |-> EmptyDict, err |-> NoError]

JSONDecodeError == Error("JSONDecodeError", <<"Expecting value: line 1 column 1 (char 0)">>)
ItemAssignError == Error("TypeError", <<"object does not support item assignment">>)
NotIterableError == Error("TypeError", <<"'int' object is not iterable">>)

EmptyResponseError(rm) ==
    Error("ValueError",
          <<"Empty response from DeepSeek (no tool_calls and no content). Expected structured output for ",
            rm, ".">>)

CouldNotParseError(content) ==
    Error("ValueError", <<"Could not parse JSON from response: ">> \o content)

EmptyJsonError(rm, content) ==
    Error("ValueError",
          <<"DeepSeek returned empty JSON for ", rm, ". Content: ">>
              \o Prefix(content, CONTENT_PREFIX))

----------------------------------------------------------------------------
(* The request built by _call_api *)

\* model = self.model or DEFAULT_MODEL
EffectiveModel(m) == IF m = <<>> THEN DEFAULT_MODEL ELSE m

\* is_reasoner = 'reasoner' in model
IsReasoner(m) == Contains(Reasoner, EffectiveModel(m))

\* the property _is_thinking_mode
IsThinkingMode(m, te) == te \/ Contains(Reasoner, EffectiveModel(m))

\* the two ceilings swapped
ModelMax_Mut(m) == IF IsReasoner(m) THEN STANDARD_MAX ELSE REASONER_MAX

\* model_max = 32768 if is_reasoner else 8192
ModelMax(m) == IF IsReasoner(m) THEN REASONER_MAX ELSE STANDARD_MAX

\* if max_tokens > model_max: max_tokens = model_max
ClampMaxTokens(m, mt) == IF mt > ModelMax(m) THEN ModelMax(m) ELSE mt

\* LLMClient._clean_input: drops zero-width and control characters
Visible(t) == t # ZW
CleanInput(content) == SelectSeq(content, Visible)

\* m.content = self._clean_input(m.content), for every m of the caller's list
CleanMessages(msgs) ==
    [i \in 1..Len(msgs) |-> [msgs[i] EXCEPT !.content = CleanInput(msgs[i].content)]]

WireRole(m) == m.role \in {"user", "system", "assistant"}

\* the list _convert_messages_to_openai_format returns
ConvertMessages(msgs) ==
    LET kept == SelectSeq(CleanMessages(msgs), WireRole)
    IN [i \in 1..Len(kept) |-> [role |-> kept[i].role, content |-> kept[i].content]]

\* request_kwargs['extra_body'] is set
SendsThinking(m, te) == te /\ ~IsReasoner(m)

\* the temperature sent whenever one is configured
RequestTemperature_Mut(m, te, temp) == temp

\* request_kwargs['temperature']: <<>> when the key is absent
RequestTemperature(m, te, temp) ==
    IF ~IsThinkingMode(m, te) /\ temp # <<>> THEN temp ELSE <<>>

\* thinking mode taken from the flag alone
OffersTool_Mut(m, te, rm) == rm # NoSchema /\ ~te

\* request_kwargs['tools'] (the tool's name) and ['tool_choice'] are set
OffersTool(m, te, rm) == rm # NoSchema /\ ~IsThinkingMode(m, te)

\* thinking mode taken from the flag alone
AsksJsonObject_Mut(m, te, rm) == rm = NoSchema /\ ~te

\* request_kwargs['response_format'] = {'type': 'json_object'} is set
AsksJsonObject(m, te, rm) == rm = NoSchema /\ ~IsThinkingMode(m, te)

NoRequest ==
    [sent |-> FALSE, model |-> <<>>, messages |-> <<>>, max_tokens |-> 0,
     extra_body |-> FALSE, temperature |-> <<>>, tools |-> <<>>,
     tool_choice |-> "None", response_format |-> "None"]

BuildRequest(m, te, temp, msgs, rm, mt) ==
    [sent |-> TRUE,
     model |-> EffectiveModel(m),
     messages |-> ConvertMessages(msgs),
     max_tokens |-> ClampMaxTokens(m, mt),
     extra_body |-> SendsThinking(m, te),
     temperature |-> RequestTemperature(m, te, temp),
     tools |-> IF OffersTool(m, te, rm) THEN <<rm>> ELSE <<>>,
     tool_choice |-> IF OffersTool(m, te, rm) THEN "required" ELSE "None",
     response_format |-> IF AsksJsonObject(m, te, rm) THEN "json_object" ELSE "None"]

----------------------------------------------------------------------------
(* Extraction of the result from a completion, in _call_api *)

Completion(tool_calls, content, usage) ==
    [kind |-> "completion", cls |-> "None", tool_calls |-> tool_calls,
     content |-> content, usage |-> usage]
ProviderRaises(cls) ==
    [kind |-> "raises", cls |-> cls, tool_calls |-> <<>>, content |-> <<>>, usage |-> <<>>]
NoResponse ==
    [kind |-> "none", cls |-> "None", tool_calls |-> <<>>, content |-> <<>>, usage |-> <<>>]

InputTokens(c) == IF c.usage = <<>> THEN 0 ELSE c.usage[1]
OutputTokens(c) == IF c.usage = <<>> THEN 0 ELSE c.usage[2]

\* result['__input_tokens'] = ...; result['__output_tokens'] = ...
WithTokenCounts(d, c) == DictSet(DictSet(d, K_IN, InputTokens(c)), K_OUT, OutputTokens(c))

\* if result_message.tool_calls: ... return result
ExtractToolCall(c) ==
    LET parsed == JsonLoads(c.tool_calls[1])
    IN IF ~parsed.ok THEN Fail(JSONDecodeError)
       ELSE IF parsed.kind # "object" THEN Fail(ItemAssignError)
       ELSE Ok(WithTokenCounts(parsed.value, c))

\* start >= 0 and end > start
HasBraces(content) ==
    Find(content, LB) >= 0 /\ RFind(content, RB) + 1 > Find(content, LB)

\* content[start:end]
BraceSubstring(content) == SubSeq(content, Find(content, LB) + 1, RFind(content, RB) + 1)

\* try: json.loads(content) except JSONDecodeError: ... ; the parse and, when it
\* fails, the error the block raises
ParseContent(content) ==
    LET direct == JsonLoads(content)
        sub == JsonLoads(BraceSubstring(content))
    IN IF direct.ok THEN [parsed |-> direct, err |-> NoError]
       ELSE IF HasBraces(content)
       THEN IF sub.ok THEN [parsed |-> sub, err |-> NoError]
                      ELSE [parsed |-> sub, err |-> JSONDecodeError]
       ELSE [parsed |-> direct, err |-> CouldNotParseError(content)]

\* any(k for k in result if not k.startswith('__'))
HasDataKey(d) == \E k \in DOMAIN d : ~StartsWith(k, DUNDER) /\ k # <<>>

\* the part of _call_api after a successful parse of the content
ValidateContent(rm, parsed, c) ==
    IF parsed.kind # "object"
    THEN IF rm # NoSchema THEN Fail(NotIterableError) ELSE Fail(ItemAssignError)
    ELSE IF rm # NoSchema /\ ~HasDataKey(parsed.value)
    THEN Fail(EmptyJsonError(rm, c.content))
    ELSE Ok(WithTokenCounts(parsed.value, c))

\* content = result_message.content or '' ... return result
ExtractContent(rm, c) ==
    LET p == ParseContent(c.content)
    IN IF Strip(c.content) = <<>>
       THEN IF rm # NoSchema THEN Fail(EmptyResponseError(rm))
                             ELSE Ok(WithTokenCounts(EmptyDict, c))
       ELSE IF p.err # NoError THEN Fail(p.err)
       ELSE ValidateContent(rm, p.parsed, c)

\* except openai.RateLimitError as e: raise RateLimitError from e
TranslateProviderError(cls) ==
    IF cls = "openai.RateLimitError" THEN Error("RateLimitError", <<"Rate limit exceeded">>)
    ELSE Error(cls, <<"provider error">>)

\* the content tried after a tool call whose arguments are not JSON
CallApiOutcome_Mut(rm, resp) ==
    IF resp.kind = "raises" THEN Fail(TranslateProviderError(resp.cls))
    ELSE IF resp.tool_calls # <<>> /\ JsonLoads(resp.tool_calls[1]).ok
    THEN ExtractToolCall(resp)
    ELSE ExtractContent(rm, resp)

\* the outcome of _call_api on the provider's answer resp
CallApiOutcome(rm, resp) ==
    IF resp.kind = "raises" THEN Fail(TranslateProviderError(resp.cls))
    ELSE IF resp.tool_calls # <<>> THEN ExtractToolCall(resp)
    ELSE ExtractContent(rm, resp)

----------------------------------------------------------------------------
(* The retry loop of _generate_response *)

\* the transport clause without InternalServerError
LoopAborts_Mut(cls) == cls \in {"RateLimitError", "APITimeoutError", "APIConnectionError"}

\* except RateLimitError: raise / except (APITimeoutError, APIConnectionError,
\* InternalServerError): raise
LoopAborts(cls) ==
    cls \in {"RateLimitError", "APITimeoutError", "APIConnectionError", "InternalServerError"}

\* the test off by one: retry_count > MAX_RETRIES
RetriesExhausted_Mut(rc) == rc > MAX_RETRIES

\* if retry_count >= MAX_RETRIES: raise
RetriesExhausted(rc) == rc >= MAX_RETRIES

\* error_context
ErrorContext(err) ==
    <<"The previous response attempt was invalid. Error type: ", err.cls, ". Error details: ">>
        \o err.msg
        \o <<". Please try again with a valid response, ensuring the output matches the expected format and constraints.">>

\* messages.insert(0, ...) in place of messages.append(...)
AppendErrorContext_Mut(msgs, err) ==
    <<[id |-> Len(msgs) + 1, role |-> "user", content |-> ErrorContext(err)]>> \o msgs

\* messages.append(Message(role='user', content=error_context))
AppendErrorContext(msgs, err) ==
    Append(msgs, [id |-> Len(msgs) + 1, role |-> "user", content |-> ErrorContext(err)])

\* only '__input_tokens' popped
StripTokenCounts_Mut(d) == DictPop(d, K_IN)

\* response.pop('__input_tokens', None); response.pop('__output_tokens', None)
StripTokenCounts(d) == DictPop(DictPop(d, K_IN), K_OUT)

Returned(result) == [kind |-> "returned", result |-> result, err |-> NoError]
Raised(err) == [kind |-> "raised", result |-> EmptyDict, err |-> err]
NoResult == [kind |-> "none", result |-> EmptyDict, err |-> NoError]

----------------------------------------------------------------------------
(* Inputs *)

Models == {<<>>, DEFAULT_MODEL, REASONER_MODEL, CUSTOM_MODEL}
Temperatures == {<<>>, <<0>>}
Schemas == {NoSchema, "Entity"}
Budgets == {1, STANDARD_MAX, STANDARD_MAX + 1, REASONER_MAX, REASONER_MAX + 1, OverBudget}

Msg(i, role, content) == [id |-> i, role |-> role, content |-> content]
MessageLists ==
    { <<Msg(1, "system", <<"You extract entities.">>), Msg(2, "user", <<"Alice met Bob.">>)>>,
      <<Msg(1, "user", <<"Alice", ZW, "met Bob.">>), Msg(2, "tool", <<"ignored">>)>> }

Usage == <<3, 5>>

\* completions the provider may answer within the retry loop
LoopContents ==
    { <<>>, <<WS>>, <<LB, M_NAME, RB>>, <<LB, RB>>, <<PROSE, LB, M_NAME, RB, PROSE>>,
      <<PROSE>>, <<PROSE, LB, PROSE, RB>>, <<ZW, PROSE>>, <<LB, M_TOK, RB>>, <<NUM>> }
LoopToolCalls ==
    { <<<<LB, M_NAME, RB>>>>, <<<<LB, RB>>>>, <<<<LB, M_NAME>>>>,
      <<<<LB, M_TOK, COMMA, M_NAME, RB>>>>, <<<<NUM>>>>,
      <<<<PROSE>>, <<LB, M_NAME, RB>>>> }
LoopCompletions ==
    {Completion(<<>>, c, Usage) : c \in LoopContents}
        \cup {Completion(t, <<>>, Usage) : t \in LoopToolCalls}
        \cup {Completion(<<<<LB, M_NAME>>>>, <<LB, M_NAME, RB>>, Usage),
              Completion(<<>>, <<LB, M_NAME, RB>>, <<>>),
              Completion(<<<<LB, M_NAME, RB>>>>, <<>>, <<>>)}

ProviderErrors ==
    {"openai.RateLimitError", "APITimeoutError", "APIConnectionError",
     "InternalServerError", "BadRequestError"}

----------------------------------------------------------------------------
(* The locals of one call *)

\* a _generate_response call that has not started
IdleTask ==
    [pc |-> "idle", messages |-> <<>>, orig |-> <<>>, response_model |-> NoSchema,
     retry_count |-> 0, calls |-> 0, failures |-> <<>>, outcome |-> NoResult]

NoRankResponse == [kind |-> "none", results |-> <<>>]

\* a rank call that has not started
IdleRank ==
    [pc |-> "idle", passages |-> <<>>, top_n |-> 0, client |-> "none", posts |-> 0,
     response |-> NoRankResponse, failed |-> FALSE, result |-> <<>>]

----------------------------------------------------------------------------
(* Actions *)

Init ==
    /\ model \in Models
    /\ thinking_enabled \in BOOLEAN
    /\ temperature \in Temperatures
    /\ pc = "idle"
    /\ messages = <<>>
    /\ orig = <<>>
    /\ response_model = NoSchema
    /\ max_tokens = 0
    /\ retry_count = 0
    /\ last_error = NoError
    /\ request = NoRequest
    /\ calls = 0
    /\ completion = NoResponse
    /\ api = NoOutcome
    /\ outcome = NoResult
    /\ tasks = [i \in 1..NumCallers |-> IdleTask]
    /\ ranks = [i \in 1..NumRankCalls |-> IdleRank]

\* a caller enters _generate_response: retry_count = 0; last_error = None
GenerateResponse ==
    /\ pc = "idle"
    /\ \E msgs \in MessageLists, rm \in Schemas, mt \in Budgets :
          /\ messages' = msgs
          /\ orig' = msgs
          /\ response_model' = rm
          /\ max_tokens' = mt
    /\ retry_count' = 0
    /\ last_error' = NoError
    /\ pc' = "loop"
    /\ UNCHANGED <<model, thinking_enabled, temperature, request, calls, completion,
                   api, outcome, tasks, ranks>>

\* while retry_count <= MAX_RETRIES: _call_api up to
\* await self.client.chat.completions.create(**request_kwargs)
SendRequest ==
    /\ pc = "loop"
    /\ retry_count <= MAX_RETRIES
    /\ messages' = CleanMessages(messages)
    /\ request' = BuildRequest(model, thinking_enabled, temperature, messages,
                               response_model, max_tokens)
    /\ calls' = calls + 1
    /\ completion' = NoResponse
    /\ api' = NoOutcome
    /\ pc' = "awaiting"
    /\ UNCHANGED <<model, thinking_enabled, temperature, orig, response_model,
                   max_tokens, retry_count, last_error, outcome, tasks, ranks>>

\* the rest of _call_api on the provider's answer, and the rest of the loop body
HandleResponse(resp) ==
    LET r == CallApiOutcome(response_model, resp)
    IN /\ completion' = resp
       /\ api' = r
       /\ IF r.state = "ok"
          THEN /\ outcome' = Returned(StripTokenCounts(r.result))
               /\ pc' = "returned"
               /\ UNCHANGED <<messages, retry_count, last_error>>
          ELSE IF LoopAborts(r.err.cls)
          THEN /\ outcome' = Raised(r.err)
               /\ pc' = "raised"
               /\ UNCHANGED <<messages, retry_count, last_error>>
          ELSE IF RetriesExhausted(retry_count)
          THEN /\ last_error' = r.err
               /\ outcome' = Raised(r.err)
               /\ pc' = "raised"
               /\ UNCHANGED <<messages, retry_count>>
          ELSE /\ last_error' = r.err
               /\ messages' = AppendErrorContext(messages, r.err)
               /\ retry_count' = retry_count + 1
               /\ IF retry_count + 1 <= MAX_RETRIES
                  THEN pc' = "loop" /\ outcome' = outcome
                  ELSE pc' = "raised" /\ outcome' = Raised(r.err)
       /\ UNCHANGED <<model, thinking_enabled, temperature, orig, response_model,
                      max_tokens, request, calls, tasks, ranks>>

\* the provider answers with a completion
ReceiveCompletion ==
    /\ pc = "awaiting"
    /\ \E c \in LoopCompletions : HandleResponse(c)

\* the provider call raises
ReceiveProviderError ==
    /\ pc = "awaiting"
    /\ \E cls \in ProviderErrors : HandleResponse(ProviderRaises(cls))

Next == GenerateResponse \/ SendRequest \/ ReceiveCompletion \/ ReceiveProviderError

Spec == Init /\ [][Next]_vars

----------------------------------------------------------------------------
(* _call_api on its own, over every completion text up to MaxContentLen tokens *)

Alphabet == {LB, RB, COMMA, M_NAME, M_TOK, PROSE, WS, NUM}
Shapes == {"content", "tool_call", "tool_call and content"}

\* the completion of a shape that carries text
Shaped(shape, text) ==
    CASE shape = "content" -> Completion(<<>>, text, Usage)
      [] shape = "tool_call" -> Completion(<<text>>, <<>>, Usage)
      [] OTHER -> Completion(<<text>>, <<LB, M_NAME, RB>>, Usage)

InitCallApi ==
    /\ Init
    /\ model = <<>>
    /\ temperature = <<>>

\* one call of _call_api(messages, response_model, max_tokens), start to end
CallApi ==
    /\ pc = "idle"
    /\ \E msgs \in MessageLists, rm \in Schemas, shape \in Shapes, k \in 0..MaxContentLen :
       \E text \in [1..k -> Alphabet] :
          /\ orig' = msgs
          /\ messages' = CleanMessages(msgs)
          /\ response_model' = rm
          /\ max_tokens' = STANDARD_MAX
          /\ request' = BuildRequest(model, thinking_enabled, temperature, msgs, rm,
                                     STANDARD_MAX)
          /\ completion' = Shaped(shape, text)
          /\ api' = CallApiOutcome(rm, Shaped(shape, text))
    /\ calls' = calls + 1
    /\ pc' = "api_done"
    /\ UNCHANGED <<model, thinking_enabled, temperature, retry_count, last_error, outcome,
                   tasks, ranks>>

NextCallApi == CallApi

SpecCallApi == InitCallApi /\ [][NextCallApi]_vars

----------------------------------------------------------------------------
(* HttpRerankerClient.rank (mcp_server/src/services/reranker.py) *)
(* A score is an integer (tenths); a response entry's index and score are    *)
(* tagged with what JSON gave: a number, a string, or nothing.              *)

IdxInt(v) == [kind |-> "int", v |-> v]
IdxNone == [kind |-> "none", v |-> 0]
IdxStr == [kind |-> "str", v |-> 0]
ScNum(v) == [kind |-> "num", v |-> v]
ScNone == [kind |-> "none", v |-> 0]
ScText == [kind |-> "text", v |-> 0]
Entry(idx, sc) == [index |-> idx, relevance_score |-> sc]

\* a 2xx response whose JSON body is an object with this "results" list
OkResponse(results) == [kind |-> "ok", results |-> results]
\* client.post raises ("transport"), raise_for_status raises ("http_error"),
\* response.json() raises or the body is no object ("malformed")
FailedResponse(kind) == [kind |-> kind, results |-> <<>>]
FailureKinds == {"transport", "http_error", "malformed"}

\* the guard left out
ShortCircuits_Mut(passages) == FALSE

\* if not passages: return []
ShortCircuits(passages) == passages = <<>>

\* seq[i] with a Python index
PyIndex(seq, i) == IF i < 0 THEN seq[Len(seq) + i + 1] ELSE seq[i + 1]

\* the lower bound forgotten: idx is not None and idx < len(passages)
InRange_Mut(e, n) == e.index.kind = "int" /\ e.index.v < n

\* idx is not None and 0 <= idx < len(passages)
InRange(e, n) == e.index.kind = "int" /\ 0 <= e.index.v /\ e.index.v < n

\* 0 <= idx raises TypeError for an index that is a string
EntryRaises(e) == e.index.kind = "str"

\* try: score = float(score) except (ValueError, TypeError): score = 0.0
ToFloat(sc) == IF sc.kind = "num" THEN sc.v ELSE 0

\* the loop over results: ranked_passages before the sort
Reconcile(passages, results) ==
    LET Keep(e) == InRange(e, Len(passages))
        kept == SelectSeq(results, Keep)
    IN [i \in 1..Len(kept) |->
          <<PyIndex(passages, kept[i].index.v), ToFloat(kept[i].relevance_score)>>]

\* an ascending sort reversed: x goes in front of the pairs of equal score
InsertByScore_Mut(sorted, x) ==
    LET k == Cardinality({i \in 1..Len(sorted) : sorted[i][2] > x[2]})
    IN SubSeq(sorted, 1, k) \o <<x>> \o SubSeq(sorted, k + 1, Len(sorted))

\* one insertion of a stable descending sort: x goes behind every pair whose score
\* is not smaller
InsertByScore(sorted, x) ==
    LET k == Cardinality({i \in 1..Len(sorted) : sorted[i][2] >= x[2]})
    IN SubSeq(sorted, 1, k) \o <<x>> \o SubSeq(sorted, k + 1, Len(sorted))

\* ranked_passages.sort(key=lambda x: x[1], reverse=True)
RECURSIVE SortByScoreDesc(_)
SortByScoreDesc(pairs) ==
    IF pairs = <<>> THEN <<>>
    ELSE InsertByScore(SortByScoreDesc(SubSeq(pairs, 1, Len(pairs) - 1)), pairs[Len(pairs)])

\* the exception swallowed with an empty result
Fallback_Mut(passages) == <<>>

\* return [(p, 0.0) for p in passages]
Fallback(passages) == [i \in 1..Len(passages) |-> <<passages[i], 0>>]

\* an exception is raised inside the try block
RequestFails(resp) ==
    \/ resp.kind \in FailureKinds
    \/ \E i \in 1..Len(resp.results) : EntryRaises(resp.results[i])

\* what rank returns from inside the async with block
RankReturn(passages, resp) ==
    IF RequestFails(resp) THEN Fallback(passages)
    ELSE SortByScoreDesc(Reconcile(passages, resp.results))

\* a client made without the with block and closed on the success path only
ReleasesClient_Mut(failed) == ~failed

\* async with httpx.AsyncClient() as client: the client is closed on every exit
ReleasesClient(failed) == TRUE

\* rank(query, passages) up to await client.post(...)
RankEnter(i, passages) ==
    /\ ranks[i].pc = "idle"
    /\ ranks' = [ranks EXCEPT ![i] =
          IF ShortCircuits(passages)
          THEN [@ EXCEPT !.pc = "done", !.passages = passages, !.result = <<>>]
          ELSE [@ EXCEPT !.pc = "posting", !.passages = passages,
                         !.top_n = Len(passages), !.client = "open", !.posts = @ + 1]]

\* the post ends (a response, or an exception): the try block runs to its return
RankRespond(i, resp) ==
    /\ ranks[i].pc = "posting"
    /\ ranks' = [ranks EXCEPT ![i] =
          [@ EXCEPT !.pc = "closing", !.response = resp, !.failed = RequestFails(resp),
                    !.result = RankReturn(ranks[i].passages, resp)]]

\* the async with block is left and rank returns
RankExit(i) ==
    /\ ranks[i].pc = "closing"
    /\ ranks' = [ranks EXCEPT ![i] =
          [@ EXCEPT !.pc = "done",
                    !.client = IF ReleasesClient(ranks[i].failed) THEN "closed" ELSE @]]

llmVars == <<model, thinking_enabled, temperature, pc, messages, orig, response_model,
             max_tokens, retry_count, last_error, request, calls, completion, api, outcome>>

PassageLists ==
    { <<>>, <<"Paris is the capital.">>,
      <<"Paris is the capital.", "Berlin is in Germany.">>,
      <<"Paris is the capital.", "Paris is the capital.">> }

EntryKinds ==
    {Entry(IdxInt(i), sc) : i \in {0, 1}, sc \in {ScNone, ScText, ScNum(2), ScNum(9)}}
        \cup {Entry(idx, ScNum(2)) : idx \in {IdxInt(-1), IdxInt(2), IdxNone, IdxStr}}

InitRank ==
    /\ Init
    /\ model = <<>>
    /\ ~thinking_enabled
    /\ temperature = <<>>

\* one rank call, over every passage list and every response up to MaxEntries entries
RankCalled ==
    /\ \E passages \in PassageLists : RankEnter(1, passages)
    /\ UNCHANGED <<llmVars, tasks>>

RankAnswered ==
    /\ ranks[1].pc = "posting"
    /\ \E k \in 0..MaxEntries : \E results \in [1..k -> EntryKinds] :
          RankRespond(1, OkResponse(results))
    /\ UNCHANGED <<llmVars, tasks>>

RankRequestFailed ==
    /\ \E kind \in FailureKinds : RankRespond(1, FailedResponse(kind))
    /\ UNCHANGED <<llmVars, tasks>>

RankReturned ==
    /\ RankExit(1)
    /\ UNCHANGED <<llmVars, tasks>>

NextRank == RankCalled \/ RankAnswered \/ RankRequestFailed \/ RankReturned

SpecRank == InitRank /\ [][NextRank]_vars

----------------------------------------------------------------------------
(* Several rank calls at once *)

FewRankResponses ==
    { OkResponse(<<Entry(IdxInt(0), ScNum(9))>>),
      OkResponse(<<Entry(IdxStr, ScNum(2))>>),
      FailedResponse("transport"),
      FailedResponse("http_error") }

ConcurrentRankCalled ==
    /\ \E i \in 1..NumRankCalls, passages \in PassageLists : RankEnter(i, passages)
    /\ UNCHANGED <<llmVars, tasks>>

ConcurrentRankResponded ==
    /\ \E i \in 1..NumRankCalls, resp \in FewRankResponses : RankRespond(i, resp)
    /\ UNCHANGED <<llmVars, tasks>>

ConcurrentRankReturned ==
    /\ \E i \in 1..NumRankCalls : RankExit(i)
    /\ UNCHANGED <<llmVars, tasks>>

NextRankConcurrent ==
    ConcurrentRankCalled \/ ConcurrentRankResponded \/ ConcurrentRankReturned

SpecRankConcurrent == InitRank /\ [][NextRankConcurrent]_vars

----------------------------------------------------------------------------
(* Several _generate_response calls at once on one client, each with its own list *)

SchemaNames == <<"Entity", "Edge", "Summary", "Community">>

\* the schema call i asks for
TaskSchema(i) == SchemaNames[((i - 1) % Len(SchemaNames)) + 1]

\* the message list call i passes in
TaskMessages(i) == <<Msg(1, "user", <<"Extract", TaskSchema(i), ZW>>)>>

FewResponses ==
    { Completion(<<<<LB, M_NAME, RB>>>>, <<>>, Usage),
      Completion(<<>>, <<>>, Usage),
      ProviderRaises("APITimeoutError") }

\* messages is the call's own parameter: call i appends to list i
OwnMessages_Mut(i) == 1

OwnMessages(i) == i

InitConcurrent ==
    /\ Init
    /\ model = <<>>
    /\ ~thinking_enabled
    /\ temperature = <<>>

\* call i enters _generate_response
TaskStart(i) ==
    /\ tasks[i].pc = "idle"
    /\ tasks' = [tasks EXCEPT ![i] =
          [IdleTask EXCEPT !.pc = "loop", !.messages = TaskMessages(i),
                           !.orig = TaskMessages(i), !.response_model = TaskSchema(i)]]

\* call i reaches await self.client.chat.completions.create(...)
TaskSend(i) ==
    /\ tasks[i].pc = "loop"
    /\ tasks[i].retry_count <= MAX_RETRIES
    /\ tasks' = [tasks EXCEPT ![i] =
          [tasks[i] EXCEPT !.pc = "awaiting", !.messages = CleanMessages(tasks[i].messages),
                           !.calls = tasks[i].calls + 1]]

\* the provider answers call i: the rest of _call_api and of the loop body
TaskReceive(i, resp) ==
    LET t == tasks[i]
        r == CallApiOutcome(t.response_model, resp)
        to == OwnMessages(i)
    IN /\ t.pc = "awaiting"
       /\ tasks' =
            IF r.state = "ok"
            THEN [tasks EXCEPT ![i] = [t EXCEPT !.pc = "returned",
                                                !.outcome = Returned(StripTokenCounts(r.result))]]
            ELSE IF LoopAborts(r.err.cls) \/ RetriesExhausted(t.retry_count)
            THEN [tasks EXCEPT ![i] = [t EXCEPT !.pc = "raised", !.outcome = Raised(r.err)]]
            ELSE [j \in DOMAIN tasks |->
                    LET a == IF j = i
                             THEN [t EXCEPT !.pc = "loop", !.retry_count = t.retry_count + 1,
                                            !.failures = Append(t.failures, r.err)]
                             ELSE tasks[j]
                    IN IF j = to
                       THEN [a EXCEPT !.messages = AppendErrorContext(tasks[j].messages, r.err)]
                       ELSE a]

TaskStarted ==
    /\ \E i \in 1..NumCallers : TaskStart(i)
    /\ UNCHANGED <<llmVars, ranks>>

TaskSent ==
    /\ \E i \in 1..NumCallers : TaskSend(i)
    /\ UNCHANGED <<llmVars, ranks>>

TaskAnswered ==
    /\ \E i \in 1..NumCallers, resp \in FewResponses : TaskReceive(i, resp)
    /\ UNCHANGED <<llmVars, ranks>>

NextConcurrent == TaskStarted \/ TaskSent \/ TaskAnswered

SpecConcurrent == InitConcurrent /\ [][NextConcurrent]_vars

----------------------------------------------------------------------------
(* Properties *)

\* thinking mode as the documentation states it: the flag, or a reasoner model
ThinkingModeOn ==
    thinking_enabled \/ Contains(Reasoner, IF model = <<>> THEN DEFAULT_MODEL ELSE model)

\* the ceiling as the documentation states it
Ceiling ==
    IF Contains(Reasoner, IF model = <<>> THEN DEFAULT_MODEL ELSE model)
    THEN REASONER_MAX ELSE STANDARD_MAX

\* corrective messages appended so far
Appended == Len(messages) - Len(orig)

TransportErrors == {"APITimeoutError", "APIConnectionError", "InternalServerError"}

\* C1: _generate_response makes at most MAX_RETRIES + 1 = 3 provider calls; when it
\* raises an application-level error (every attempt failed with one), exactly 3
\* calls were made, exactly 2 corrective messages were appended, and the error
\* raised is the error of the last attempt.
C1_BoundedRetries ==
    /\ calls <= MAX_RETRIES + 1
    /\ (pc = "raised" /\ outcome.err.cls \notin TransportErrors \cup {"RateLimitError"})
         => /\ calls = MAX_RETRIES + 1
            /\ Appended = MAX_RETRIES
            /\ api.state = "error"
            /\ outcome = Raised(api.err)

C1_Witness ==
    /\ pc = "raised"
    /\ response_model = "Entity"
    /\ completion = Completion(<<>>, <<>>, Usage)
    /\ outcome.err = EmptyResponseError("Entity")
    /\ calls = 3
    /\ Appended = 2

\* C2: when the provider call of an attempt raises a rate-limit or transport error,
\* on whichever attempt, the loop is over: the error is raised to the caller (the
\* rate limit as RateLimitError, the transport error under its own class), no
\* corrective message was appended for that attempt and no further call can be made.
C2_AbortsImmediately ==
    (completion.kind = "raises" /\ completion.cls \in TransportErrors \cup {"openai.RateLimitError"})
      => /\ pc = "raised"
         /\ outcome.kind = "raised"
         /\ outcome.err.cls = IF completion.cls = "openai.RateLimitError"
                              THEN "RateLimitError" ELSE completion.cls
         /\ Appended = retry_count
         /\ calls = retry_count + 1
         /\ ~ENABLED SendRequest

C2_Witness ==
    /\ completion = ProviderRaises("APITimeoutError")
    /\ retry_count = 1
    /\ calls = 2
    /\ pc = "raised"
    /\ outcome.err.cls = "APITimeoutError"

\* C3: the message list only grows at its end: the original messages stay a prefix,
\* in their order (same objects and roles, content as passed or as cleaned), one
\* user message is appended per failed attempt and nothing else, and the messages
\* sent with attempt n+1 are those sent with attempt n plus one user message.
C3_PrefixKept ==
    /\ Len(messages) >= Len(orig)
    /\ \A i \in 1..Len(orig) :
          /\ messages[i].id = orig[i].id
          /\ messages[i].role = orig[i].role
          /\ messages[i].content \in {orig[i].content, SelectSeq(orig[i].content, Visible)}
    /\ \A i \in (Len(orig) + 1)..Len(messages) : messages[i].role = "user"
    /\ Appended = retry_count
    /\ retry_count <= calls

C3_Step ==
    /\ pc # "idle" =>
          /\ Len(messages') \in {Len(messages), Len(messages) + 1}
          /\ \A i \in 1..Len(messages) :
                /\ messages'[i].id = messages[i].id
                /\ messages'[i].role = messages[i].role
                /\ messages'[i].content
                     \in {messages[i].content, SelectSeq(messages[i].content, Visible)}
          /\ Len(messages') = Len(messages) + 1 => api'.state = "error"
    /\ (request.sent /\ request' # request) =>
          /\ Len(request'.messages) = Len(request.messages) + 1
          /\ SubSeq(request'.messages, 1, Len(request.messages)) = request.messages
          /\ request'.messages[Len(request'.messages)].role = "user"

C3_AppendOnly == []C3_PrefixKept /\ [][C3_Step]_vars

C3_Witness ==
    /\ pc = "awaiting"
    /\ calls = 3
    /\ Appended = 2
    /\ orig[1].content # messages[1].content
    /\ Len(request.messages) = 3

\* C4 (as claimed): a result returned to a caller that supplied a schema has at
\* least one schema (non-bookkeeping) field.
C4_SchemaResultNonEmpty ==
    (pc = "returned" /\ response_model # NoSchema)
      => \E k \in DOMAIN outcome.result : ~StartsWith(k, DUNDER)

\* the first tool call's arguments, parsed
ToolArgs == JsonLoads(completion.tool_calls[1])

\* a returned mapping has neither token-count key
NoTokenKeys == K_IN \notin DOMAIN outcome.result /\ K_OUT \notin DOMAIN outcome.result

\* the schema-requested completion's first tool call has JSON-object arguments
ToolCallCase ==
    /\ pc = "returned"
    /\ response_model # NoSchema
    /\ completion.tool_calls # <<>>
    /\ ToolArgs.ok
    /\ ToolArgs.kind = "object"

\* C5 (as claimed): every returned mapping has neither token-count key, and for a
\* schema-requested completion whose first tool call has JSON-object arguments the
\* returned mapping is exactly those arguments.
C5_ExactlyArguments ==
    /\ pc = "returned" => NoTokenKeys
    /\ ToolCallCase => outcome.result = ToolArgs.value

\* C5 (amended): every returned mapping has neither token-count key, and for a
\* schema-requested completion whose first tool call has JSON-object arguments the
\* returned mapping is those arguments without the two token-count keys.
C5_ArgumentsWithoutTokenKeys ==
    /\ pc = "returned" => NoTokenKeys
    /\ ToolCallCase =>
          /\ DOMAIN outcome.result = DOMAIN ToolArgs.value \ {K_IN, K_OUT}
          /\ \A k \in DOMAIN outcome.result : outcome.result[k] = ToolArgs.value[k]

C5_Witness ==
    /\ ToolCallCase
    /\ completion.tool_calls[1] = <<LB, M_TOK, COMMA, M_NAME, RB>>
    /\ DOMAIN outcome.result = {K_NAME}

\* C6: on every attempt the max_tokens sent is min(requested, ceiling), the ceiling
\* being 32768 for a model identifier containing 'reasoner' and 8192 otherwise, the
\* thinking flag notwithstanding; a budget above the ceiling is sent as the ceiling.
C6_ClampedBudget ==
    request.sent =>
      /\ request.max_tokens = IF max_tokens < Ceiling THEN max_tokens ELSE Ceiling
      /\ (max_tokens = OverBudget /\ model \in {<<>>, DEFAULT_MODEL, CUSTOM_MODEL})
           => request.max_tokens = 8192
      /\ (max_tokens = OverBudget /\ model = REASONER_MODEL) => request.max_tokens = 32768

C6_Witness ==
    /\ pc = "awaiting"
    /\ retry_count = 2
    /\ max_tokens = OverBudget
    /\ model = DEFAULT_MODEL
    /\ thinking_enabled
    /\ request.max_tokens = 8192

\* C7: a request carries the tool definition with tool_choice 'required' exactly
\* when a schema is supplied and thinking mode is off; in thinking mode it carries
\* neither tools nor tool_choice.
C7_ToolsIffSchemaAndNotThinking ==
    request.sent =>
      /\ (request.tools = <<response_model>> /\ request.tool_choice = "required")
           <=> (response_model # NoSchema /\ ~ThinkingModeOn)
      /\ (request.tools # <<>> \/ request.tool_choice # "None")
           => (response_model # NoSchema /\ ~ThinkingModeOn)

C7_Witness ==
    /\ request.sent
    /\ model = REASONER_MODEL
    /\ ~thinking_enabled
    /\ response_model = "Entity"
    /\ request.tools = <<>>
    /\ request.tool_choice = "None"

\* C8 (as claimed): without a schema every request asks for a JSON-object
\* completion, in thinking mode too.
C8_AlwaysJsonObject ==
    (request.sent /\ response_model = NoSchema) => request.response_format = "json_object"

\* C8 (amended): without a schema a request asks for a JSON-object completion when
\* thinking mode is off, and carries no response_format in thinking mode; with a
\* schema it never carries one.
C8_JsonObjectUnlessThinking ==
    request.sent =>
      (request.response_format = "json_object"
         <=> (response_model = NoSchema /\ ~ThinkingModeOn))

C8_Witness ==
    /\ request.sent
    /\ response_model = NoSchema
    /\ model = REASONER_MODEL
    /\ ~thinking_enabled
    /\ request.response_format = "None"

\* C9: a request carries a temperature only when thinking mode is off and one is
\* configured; in thinking mode, by the flag or by a reasoner model, it carries none.
C9_TemperatureOnlyOutsideThinking ==
    request.sent =>
      /\ request.temperature # <<>>
           => (~ThinkingModeOn /\ temperature # <<>> /\ request.temperature = temperature)
      /\ ThinkingModeOn => request.temperature = <<>>

C9_Witness ==
    /\ request.sent
    /\ temperature = <<0>>
    /\ model = REASONER_MODEL
    /\ ~thinking_enabled
    /\ request.temperature = <<>>

\* the completion has no tool call and non-blank content that json.loads rejects
UnparseableContentCase ==
    /\ pc = "api_done"
    /\ completion.tool_calls = <<>>
    /\ Strip(completion.content) # <<>>
    /\ ~JsonLoads(completion.content).ok

\* the text from the first "{" to the last "}" of the content, when there is one
Braced ==
    LET c == completion.content
        first == CHOOSE i \in 1..Len(c) : c[i] = LB /\ \A j \in 1..(i - 1) : c[j] # LB
        last == CHOOSE i \in 1..Len(c) : c[i] = RB /\ \A j \in (i + 1)..Len(c) : c[j] # RB
    IN IF (\E i \in 1..Len(c) : c[i] = LB) /\ (\E i \in 1..Len(c) : c[i] = RB) /\ first < last
       THEN SubSeq(c, first, last) ELSE <<>>

\* C10 (as claimed): for a completion without a tool call whose non-blank content is
\* not JSON, a returned result is the parse of the text from the first "{" to the
\* last "}", and whenever that recovery fails the attempt fails with the parse error
\* that names the content.
C10_RecoveryOrNamedParseError ==
    UnparseableContentCase =>
      IF JsonLoads(Braced).ok
      THEN api.state = "ok" =>
             \A k \in DOMAIN JsonLoads(Braced).value \ {K_IN, K_OUT} :
                 k \in DOMAIN api.result /\ api.result[k] = JsonLoads(Braced).value[k]
      ELSE /\ api.state = "error"
           /\ api.err.cls = "ValueError"
           /\ Contains(completion.content, api.err.msg)

\* the latest completion has no tool call and empty, blank or absent content
BlankContentCase ==
    /\ completion.kind = "completion"
    /\ completion.tool_calls = <<>>
    /\ \A i \in 1..Len(completion.content) : completion.content[i] = WS

\* C11: for a completion with no tool call and empty, whitespace-only or absent
\* content, the attempt fails with a ValueError naming the schema when a schema was
\* requested; without a schema the attempt succeeds with the two token counts only,
\* _generate_response returns the empty mapping and appends no corrective message
\* for it (one provider call in all when it is the first attempt).
C11_EmptyContentPolicy ==
    BlankContentCase =>
      IF response_model # NoSchema
      THEN /\ api.state = "error"
           /\ api.err.cls = "ValueError"
           /\ \E i \in 1..Len(api.err.msg) : api.err.msg[i] = response_model
           /\ pc # "returned"
      ELSE /\ api.state = "ok"
           /\ DOMAIN api.result = {K_IN, K_OUT}
           /\ pc = "returned"
           /\ outcome.kind = "returned"
           /\ DOMAIN outcome.result = {}
           /\ Appended = retry_count
           /\ calls = retry_count + 1
           /\ retry_count = 0 => (calls = 1 /\ messages = CleanMessages(orig))

C11_Witness ==
    /\ completion = Completion(<<>>, <<WS>>, Usage)
    /\ response_model = NoSchema
    /\ pc = "returned"
    /\ calls = 1
    /\ Len(messages) = Len(orig)
    /\ outcome.result = EmptyDict

\* the rank call the single-call specification runs
TheRank == ranks[1]

\* C12 (as claimed): a rank call whose request/parse sequence failed has made 3
\* attempts (2 retries) before it applied its failure policy.
C12_ThreeAttemptsOnFailure ==
    (TheRank.pc = "done" /\ TheRank.failed) => TheRank.posts = 3

\* C13 (as claimed): for a non-empty passage list the result is no longer than the
\* passage list, whatever the endpoint answered.
C13_ResultNoLongerThanPassages ==
    (TheRank.pc = "done" /\ TheRank.passages # <<>>)
      => Len(TheRank.result) <= Len(TheRank.passages)

\* response entries whose index is a number within [0, passage count)
ValidEntries ==
    {i \in 1..Len(TheRank.response.results) :
        /\ TheRank.response.results[i].index.kind = "int"
        /\ TheRank.response.results[i].index.v >= 0
        /\ TheRank.response.results[i].index.v < Len(TheRank.passages)}

\* the pair the documentation gives entry i: its passage, its score or 0.0
PairOf(i) ==
    LET e == TheRank.response.results[i]
    IN <<TheRank.passages[e.index.v + 1],
         IF e.relevance_score.kind = "num" THEN e.relevance_score.v ELSE 0>>

\* the response was read without an exception and every index is a number or missing
SuccessCase ==
    /\ TheRank.pc \in {"closing", "done"}
    /\ TheRank.response.kind = "ok"
    /\ \A i \in 1..Len(TheRank.response.results) :
          TheRank.response.results[i].index.kind \in {"int", "none"}

\* C14: on a successful response the result is exactly one pair (passages[index],
\* score) per entry whose index is within [0, passage count), a missing or
\* non-numeric score counting 0.0; entries with a missing, negative or too-large
\* index are dropped without a failure, and nothing is added.
C14_ExactlyTheValidEntries ==
    SuccessCase =>
      /\ ~TheRank.failed
      /\ Len(TheRank.result) = Cardinality(ValidEntries)
      /\ \A p \in {PairOf(i) : i \in ValidEntries}
                  \cup {TheRank.result[j] : j \in 1..Len(TheRank.result)} :
            Cardinality({j \in 1..Len(TheRank.result) : TheRank.result[j] = p})
              = Cardinality({i \in ValidEntries : PairOf(i) = p})

C14_Witness ==
    /\ TheRank.pc = "done"
    /\ TheRank.passages = <<"Paris is the capital.", "Berlin is in Germany.">>
    /\ TheRank.response = OkResponse(<<Entry(IdxInt(-1), ScNum(2)), Entry(IdxInt(1), ScText),
                                       Entry(IdxInt(2), ScNum(2))>>)
    /\ TheRank.result = <<<<"Berlin is in Germany.", 0>>>>

\* the pairs of the valid entries of score s, in response order
ResponseOrder(s) ==
    LET HasScore(i) == i \in ValidEntries /\ PairOf(i)[2] = s
        at == SelectSeq([i \in 1..Len(TheRank.response.results) |-> i], HasScore)
    IN [j \in 1..Len(at) |-> PairOf(at[j])]

\* the pairs of the result of score s, in result order
ResultOrder(s) ==
    LET HasScore(p) == p[2] = s
    IN SelectSeq(TheRank.result, HasScore)

\* C15: the list returned on a successful response is sorted by score, non-increasing,
\* and entries of equal score keep the order they had in the response.
C15_SortedAndStable ==
    SuccessCase =>
      /\ \A j \in 1..(Len(TheRank.result) - 1) :
            TheRank.result[j][2] >= TheRank.result[j + 1][2]
      /\ \A s \in {PairOf(i)[2] : i \in ValidEntries}
                  \cup {TheRank.result[j][2] : j \in 1..Len(TheRank.result)} :
            ResultOrder(s) = ResponseOrder(s)

C15_Witness ==
    /\ TheRank.pc = "done"
    /\ TheRank.passages = <<"Paris is the capital.", "Berlin is in Germany.">>
    /\ TheRank.response = OkResponse(<<Entry(IdxInt(1), ScNum(2)), Entry(IdxInt(0), ScNum(2)),
                                       Entry(IdxInt(0), ScNum(9))>>)
    /\ TheRank.result = << <<"Paris is the capital.", 9>>, <<"Berlin is in Germany.", 2>>,
                           <<"Paris is the capital.", 2>> >>

\* C16: when the request/parse sequence fails (HTTP error status, transport
\* exception, malformed body) rank returns every passage once, in input order, each
\* with score 0.0: as many pairs as passages.
C16_DegradesToZeroScores ==
    (TheRank.pc \in {"closing", "done"} /\ TheRank.response.kind \in FailureKinds)
      => /\ Len(TheRank.result) = Len(TheRank.passages)
         /\ \A i \in 1..Len(TheRank.passages) :
               TheRank.result[i] = <<TheRank.passages[i], 0>>

C16_Witness ==
    /\ TheRank.pc = "done"
    /\ TheRank.response = FailedResponse("http_error")
    /\ TheRank.passages = <<"Paris is the capital.", "Berlin is in Germany.">>
    /\ TheRank.result = << <<"Paris is the capital.", 0>>, <<"Berlin is in Germany.", 0>> >>

\* C17: rank with an empty passage list returns the empty list, posts nothing and
\* creates no HTTP client.
C17_EmptyShortCircuit ==
    (TheRank.pc # "idle" /\ TheRank.passages = <<>>)
      => /\ TheRank.pc = "done"
         /\ TheRank.result = <<>>
         /\ TheRank.posts = 0
         /\ TheRank.client = "none"
         /\ TheRank.response = NoRankResponse

C17_Witness ==
    /\ TheRank.pc = "done"
    /\ TheRank.passages = <<>>
    /\ TheRank.result = <<>>
    /\ TheRank.posts = 0

\* C18: extraction has a fixed priority. With any tool call, the first tool call's
\* arguments alone decide: JSON-object arguments are the result, anything else fails
\* the attempt, whatever the content holds, and the failure is retried by the loop
\* like any application-level error. Only without a tool call is the content used:
\* its direct parse first, else the parse of its first-"{"-to-last-"}" substring.
C18_ExtractionPriority ==
    /\ (completion.kind = "completion" /\ completion.tool_calls # <<>>) =>
          IF ToolArgs.ok /\ ToolArgs.kind = "object"
          THEN /\ api.state = "ok"
               /\ DOMAIN api.result = DOMAIN ToolArgs.value \cup {K_IN, K_OUT}
               /\ \A k \in DOMAIN ToolArgs.value \ {K_IN, K_OUT} :
                     api.result[k] = ToolArgs.value[k]
          ELSE /\ api.state = "error"
               /\ api.err.cls \in {"JSONDecodeError", "TypeError"}
               /\ \/ /\ pc = "loop"
                     /\ retry_count = calls
                     /\ messages[Len(messages)].role = "user"
                     /\ messages[Len(messages)].content[2] = api.err.cls
                  \/ /\ pc = "raised"
                     /\ calls = MAX_RETRIES + 1
                     /\ outcome.err = api.err
    /\ (completion.kind = "completion" /\ completion.tool_calls = <<>>
          /\ Strip(completion.content) # <<>> /\ api.state = "ok") =>
          LET direct == JsonLoads(completion.content)
              used == IF direct.ok THEN direct ELSE JsonLoads(Braced)
          IN /\ used.ok
             /\ DOMAIN api.result = DOMAIN used.value \cup {K_IN, K_OUT}
             /\ \A k \in DOMAIN used.value \ {K_IN, K_OUT} : api.result[k] = used.value[k]

C18_Witness ==
    /\ completion = Completion(<<<<LB, M_NAME>>>>, <<LB, M_NAME, RB>>, Usage)
    /\ api.state = "error"
    /\ api.err.cls = "JSONDecodeError"
    /\ pc = "loop"
    /\ retry_count = 1
    /\ Len(messages) = Len(orig) + 1

\* C19: concurrent _generate_response calls on one client, each with its own message
\* list, do not interfere: every call makes at most 3 provider calls, counts its own
\* retries, and its list holds its original messages followed by the corrective
\* messages of its own failed attempts, in order, and nothing else.
C19_CallsDoNotInterfere ==
    \A i \in 1..NumCallers :
      LET t == tasks[i]
      IN /\ t.calls <= MAX_RETRIES + 1
         /\ t.retry_count = Len(t.failures)
         /\ t.calls \in {t.retry_count, t.retry_count + 1}
         /\ Len(t.messages) = Len(t.orig) + Len(t.failures)
         /\ \A k \in 1..Len(t.orig) :
               /\ t.messages[k].role = t.orig[k].role
               /\ t.messages[k].content
                    \in {t.orig[k].content, SelectSeq(t.orig[k].content, Visible)}
         /\ \A k \in 1..Len(t.failures) :
               /\ t.messages[Len(t.orig) + k].role = "user"
               /\ t.messages[Len(t.orig) + k].content[2] = t.failures[k].cls
               /\ \E n \in 1..Len(t.messages[Len(t.orig) + k].content) :
                     t.messages[Len(t.orig) + k].content[n] = t.response_model

C19_Witness ==
    /\ tasks[1].pc = "awaiting"
    /\ tasks[1].retry_count = 2
    /\ tasks[1].calls = 3
    /\ tasks[2].pc = "awaiting"
    /\ tasks[2].retry_count = 1
    /\ Len(tasks[2].messages) = 2
    /\ Len(tasks[1].messages) = 3

\* C20: every HTTP client a rank call creates is closed by the time the call is
\* over, after a success and after a failure alike; when no rank call is in flight
\* no client is open, several concurrent calls included.
C20_ClientsReleased ==
    /\ \A i \in 1..NumRankCalls :
          ranks[i].pc = "done"
            => /\ ranks[i].client # "open"
               /\ ranks[i].posts > 0 => ranks[i].client = "closed"
    /\ (\A i \in 1..NumRankCalls : ranks[i].pc \in {"idle", "done"})
          => \A i \in 1..NumRankCalls : ranks[i].client # "open"

C20_Witness ==
    /\ ranks[1].pc = "done"
    /\ ranks[1].failed
    /\ ranks[1].client = "closed"
    /\ ranks[2].pc = "done"
    /\ ~ranks[2].failed
    /\ ranks[2].posts = 1
    /\ ranks[2].client = "closed"

====
